---------------------------- MODULE Spec2Model ----------------------------
(***************************************************************************)
(* Model of src/streamlit_app.py: the CDB IPCA+ calculator.                *)
(*                                                                         *)
(* The script is one top-to-bottom run: the sidebar widgets return the     *)
(* parameters, the derived values are computed, date_range generates the   *)
(* contribution dates, and the nested loop appends one row per withdrawal  *)
(* month t.                                                                *)
(*                                                                         *)
(* Number representation.  The script works on Python floats.  Here every  *)
(* quantity is a fixed-point integer:                                      *)
(*   - money (aporte_mensal, fv, lucro, the three running totals) is in    *)
(*     mills, 1/1000 of a currency unit;                                   *)
(*   - a growth factor or a rate of return (taxa_anual, rm, (1+rm)^h) is   *)
(*     in units of 1/SCALE;                                                *)
(*   - a tax rate is in per-mille, so ir, ir_total and saldo_liquido are   *)
(*     in micros (1/1000 of a mill);                                       *)
(*   - an emitted, rounded field is in cents.                              *)
(* A product is rounded down to the unit of its result, as a float         *)
(* product is rounded to its precision; sums and differences are exact.    *)
(***************************************************************************)
EXTENDS Integers, Sequences, FiniteSets

\* ------------------------------------------------------------------ bounds

\* Largest "Prazo (anos)" explored (the widget allows up to 30).
MaxPrazo == 3

\* Values the user may type into the widgets.
SCALE == 10^4
MILLS == 10^3
AporteInputs == {1000, 1007, 2500}          \* R$ 1.00, 1.007, 2.50 in mills
TaxaInputs   == {0, 600, 1200}              \* 0 %, 6 %, 12 % a year, in 1/SCALE
Years        == 2023 .. 2024                \* a common year and a leap year

VARIABLES
    aporte_mensal,    \* line 37, mills
    taxa_anual,       \* line 38-39, fraction in 1/SCALE
    prazo_anos,       \* line 40
    aporte_inicio,    \* line 41, BOOLEAN
    data_inicio,      \* line 42, [y, m, d]
    meses,            \* line 46
    rm,               \* line 47, in 1/SCALE
    aporte_dates,     \* lines 64-69, sequence of dates
    rows,             \* line 72, the emitted rows (rounded fields in cents)
    t,                \* outer loop variable, line 73
    m,                \* inner loop variable, line 79
    total_investido,  \* line 74, mills
    fv_total,         \* line 75, mills
    lucro_total,      \* line 76, mills
    ir_total,         \* line 77, micros
    meses_investidos, \* line 80, the last holding period computed
    ir_rate,          \* line 84, the last rate aliquota_ir returned, per-mille
    held,             \* history: the holding periods passed to aliquota_ir
                      \* during the current outer iteration, in call order
    raws,             \* history: the unrounded totals behind each row
    pc

vars == <<aporte_mensal, taxa_anual, prazo_anos, aporte_inicio, data_inicio,
          meses, rm, aporte_dates, rows, t, m, total_investido, fv_total,
          lucro_total, ir_total, meses_investidos, ir_rate, held, raws, pc>>

params == <<aporte_mensal, taxa_anual, prazo_anos, aporte_inicio, data_inicio>>

\* ------------------------------------------------------------- calendar

IsLeap(y) == (y % 4 = 0) /\ ((y % 100 # 0) \/ (y % 400 = 0))

DaysInMonth(y, mo) ==
    IF mo = 2 THEN (IF IsLeap(y) THEN 29 ELSE 28)
    ELSE IF mo \in {4, 6, 9, 11} THEN 30
    ELSE 31

Date(y, mo, d) == [y |-> y, m |-> mo, d |-> d]

ValidDates ==
    { dt \in { Date(y, mo, d) : y \in Years, mo \in 1..12, d \in 1..31 } :
          dt.d <= DaysInMonth(dt.y, dt.m) }

\* Months since year 0 of the month a date lies in.
MonthIndex(dt) == dt.y * 12 + (dt.m - 1)

\* pd.DateOffset(months=k) added to a date: the month moves by k and the day
\* is clamped to the length of the target month.
DateOffsetMonths(dt, k) ==
    LET idx == MonthIndex(dt) + k
        y   == idx \div 12
        mo  == (idx % 12) + 1
        dim == DaysInMonth(y, mo)
    IN  Date(y, mo, IF dt.d <= dim THEN dt.d ELSE dim)

\* Mutant of RollForward: a start inside a month is rolled back to that
\* month's first day.
RollBackward(start, freq) ==
    IF freq = "MS"
    THEN Date(start.y, start.m, 1)
    ELSE Date(start.y, start.m, DaysInMonth(start.y, start.m))

\* The first timestamp of pd.date_range(start=...): start rolled forward onto
\* the frequency.  'MS' (month start): start itself when it is a first day,
\* else the first day of the next month.  'M' (month end): the last day of
\* start's month.
RollForward(start, freq) ==
    IF freq = "MS"
    THEN IF start.d = 1 THEN start
         ELSE DateOffsetMonths(Date(start.y, start.m, 1), 1)
    ELSE Date(start.y, start.m, DaysInMonth(start.y, start.m))

\* pd.date_range(start, periods, freq): `periods` successive month starts or
\* month ends from the rolled start.
date_range(start, periods, freq) ==
    LET first == RollForward(start, freq)
    IN  [i \in 1..periods |->
            LET base == DateOffsetMonths(Date(first.y, first.m, 1), i - 1)
            IN  IF freq = "MS" THEN base
                ELSE Date(base.y, base.m, DaysInMonth(base.y, base.m))]

\* ----------------------------------------------------------- arithmetic

\* g^n for a growth factor g in 1/SCALE.
RECURSIVE Pow(_, _)
Pow(g, n) == IF n = 0 THEN SCALE ELSE (Pow(g, n - 1) * g) \div SCALE

\* x ** (1/12) for x >= 1 in 1/SCALE: the largest g whose 12th power is <= x.
Root12(x) ==
    CHOOSE g \in SCALE..x : Pow(g, 12) <= x /\ Pow(g + 1, 12) > x

\* line 47: rm = (1 + taxa_anual) ** (1/12) - 1
MonthlyRate(taxa) == Root12(SCALE + taxa) - SCALE

\* line 46: meses = int(prazo_anos * 12)
Meses(anos) == anos * 12

\* Mutant of aliquota_ir: strict comparisons.
aliquota_ir_strict(mi) ==
    IF mi < 6 THEN 225
    ELSE IF mi < 12 THEN 200
    ELSE IF mi < 24 THEN 175
    ELSE 150

\* lines 53-61, rates in per-mille
aliquota_ir(mi) ==
    IF mi <= 6 THEN 225
    ELSE IF mi <= 12 THEN 200
    ELSE IF mi <= 24 THEN 175
    ELSE 150

\* Mutant of OuterRange: range(1, meses).
OuterRangeShort(n) == 1 .. (n - 1)

\* line 73: range(1, meses + 1)
OuterRange(n) == 1 .. n

\* line 79: range(0, t)
InnerRange(tt) == 0 .. (tt - 1)

\* Mutant of HoldingPeriod: the month of the contribution is not counted.
HoldingPeriodShort(tt, mm) == tt - mm - 1

\* line 80
HoldingPeriod(tt, mm) == tt - mm

\* line 82: fv = aport * ((1 + rm) ** meses_investidos), mills
FutureValue(aport, r, mi) == (aport * Pow(SCALE + r, mi)) \div SCALE

\* Mutant of Lucro: the principal is not subtracted.
LucroWithPrincipal(fv, aport) == fv

\* line 83: lucro = fv - aport, mills
Lucro(fv, aport) == fv - aport

\* line 85: ir = lucro * ir_rate, micros
Imposto(lucro, rate) == lucro * rate

\* Mutant of SaldoLiquido: the tax is added.
SaldoLiquidoPlus(fvt, irt) == fvt * MILLS + irt

\* line 92: saldo_liquido = fv_total - ir_total, micros
SaldoLiquido(fvt, irt) == fvt * MILLS - irt

\* Mutant of Round2: truncation.
Round2Trunc(x, per) == x \div per

\* round(x, 2) of a non-negative x, where one cent is `per` units of x: the
\* nearest cent, a tie going to the even cent.
Round2(x, per) ==
    LET q == x \div per
        r == x % per
    IN  IF 2 * r < per THEN q
        ELSE IF 2 * r > per THEN q + 1
        ELSE IF q % 2 = 0 THEN q ELSE q + 1

CentsOfMills(x)  == Round2(x, 10)
CentsOfMicros(x) == Round2(x, 10 * MILLS)

\* --------------------------------------------------------------- actions

\* lines 37-42: what the sidebar widgets can return.
\*   aporte_mensal: min_value=1.0;  taxa_anual: min_value=0.0;
\*   prazo_anos: min_value=1 (max_value=30, cut at MaxPrazo);
\*   aporte_inicio: a checkbox;  data_inicio: a calendar date.
WidgetValues(dates) ==
    /\ aporte_mensal \in { a \in AporteInputs : a >= 1 * MILLS }
    /\ taxa_anual \in { x \in TaxaInputs : x >= 0 }
    /\ prazo_anos \in 1 .. MaxPrazo
    /\ aporte_inicio \in BOOLEAN
    /\ data_inicio \in dates

NotYetRun ==
    /\ meses = 0
    /\ rm = 0
    /\ aporte_dates = << >>
    /\ rows = << >>
    /\ raws = << >>
    /\ held = << >>
    /\ t = 0
    /\ m = 0
    /\ total_investido = 0
    /\ fv_total = 0
    /\ lucro_total = 0
    /\ ir_total = 0
    /\ meses_investidos = 0
    /\ ir_rate = 0
    /\ pc = "derive"

\* lines 46-47
Derive ==
    /\ pc = "derive"
    /\ meses' = Meses(prazo_anos)
    /\ rm' = MonthlyRate(taxa_anual)
    /\ pc' = "dates"
    /\ UNCHANGED <<params, aporte_dates, rows, t, m, total_investido, fv_total,
                   lucro_total, ir_total, meses_investidos, ir_rate, held, raws>>

\* lines 64-72
GeraDatas ==
    /\ pc = "dates"
    /\ aporte_dates' = date_range(data_inicio, meses,
                                  IF aporte_inicio THEN "MS" ELSE "M")
    /\ rows' = << >>
    /\ t' = 1
    /\ pc' = "outer"
    /\ UNCHANGED <<params, meses, rm, m, total_investido, fv_total,
                   lucro_total, ir_total, meses_investidos, ir_rate, held, raws>>

\* Mutant of OuterBegin: the totals are not reset.
OuterBeginNoReset ==
    /\ pc = "outer"
    /\ t \in OuterRange(meses)
    /\ m' = 0
    /\ held' = << >>
    /\ pc' = "inner"
    /\ UNCHANGED <<params, meses, rm, aporte_dates, rows, t, total_investido,
                   fv_total, lucro_total, ir_total, meses_investidos, ir_rate,
                   raws>>

\* lines 73-77: the next t of the outer loop; the four totals start at 0.
OuterBegin ==
    /\ pc = "outer"
    /\ t \in OuterRange(meses)
    /\ total_investido' = 0
    /\ fv_total' = 0
    /\ lucro_total' = 0
    /\ ir_total' = 0
    /\ m' = 0
    /\ held' = << >>
    /\ pc' = "inner"
    /\ UNCHANGED <<params, meses, rm, aporte_dates, rows, t,
                   meses_investidos, ir_rate, raws>>

\* lines 79-90: one iteration of the inner loop.
InnerStep ==
    /\ pc = "inner"
    /\ m \in InnerRange(t)
    /\ LET mi    == HoldingPeriod(t, m)
           aport == aporte_mensal
           fv    == FutureValue(aport, rm, mi)
           lucro == Lucro(fv, aport)
           rate  == aliquota_ir(mi)
           ir    == Imposto(lucro, rate)
       IN  /\ meses_investidos' = mi
           /\ ir_rate' = rate
           /\ held' = Append(held, mi)
           /\ total_investido' = total_investido + aport
           /\ fv_total' = fv_total + fv
           /\ lucro_total' = lucro_total + lucro
           /\ ir_total' = ir_total + ir
    /\ m' = m + 1
    /\ UNCHANGED <<params, meses, rm, aporte_dates, rows, t, raws, pc>>

\* lines 92-103: the inner loop is exhausted; the row of month t is appended.
Emit ==
    /\ pc = "inner"
    /\ m \notin InnerRange(t)
    /\ LET saldo_liquido == SaldoLiquido(fv_total, ir_total)
           data_saque    == DateOffsetMonths(aporte_dates[1], t - 1)
       IN  /\ rows' = Append(rows,
                 [mes              |-> t,
                  data_saque       |-> data_saque,
                  total_investido  |-> CentsOfMills(total_investido),
                  saldo_bruto      |-> CentsOfMills(fv_total),
                  rendimento_bruto |-> CentsOfMills(lucro_total),
                  ir               |-> CentsOfMicros(ir_total),
                  saldo_liquido    |-> CentsOfMicros(saldo_liquido)])
           /\ raws' = Append(raws,
                 [total_investido |-> total_investido,
                  fv_total        |-> fv_total,
                  lucro_total     |-> lucro_total,
                  ir_total        |-> ir_total,
                  saldo_liquido   |-> saldo_liquido])
    /\ t' = t + 1
    /\ pc' = "outer"
    /\ UNCHANGED <<params, meses, rm, aporte_dates, m, total_investido,
                   fv_total, lucro_total, ir_total, meses_investidos, ir_rate,
                   held>>

\* line 106: the outer loop is exhausted; the rows become the DataFrame.
Finish ==
    /\ pc = "outer"
    /\ t \notin OuterRange(meses)
    /\ pc' = "done"
    /\ UNCHANGED <<params, meses, rm, aporte_dates, rows, t, m,
                   total_investido, fv_total, lucro_total, ir_total,
                   meses_investidos, ir_rate, held, raws>>

Next == Derive \/ GeraDatas \/ OuterBegin \/ InnerStep \/ Emit \/ Finish

\* Runs over every amount, rate and term, from a few start dates.
NumericDates == { Date(2024, 1, 1), Date(2023, 2, 15) }

Init == WidgetValues(NumericDates) /\ NotYetRun

Spec == Init /\ [][Next]_vars

\* Runs over every start date, with one amount and one rate.
StartDates == { dt \in ValidDates : dt.d \in {1, 2, 15, DaysInMonth(dt.y, dt.m)} }

InitDates ==
    /\ WidgetValues(StartDates)
    /\ aporte_mensal = 1007
    /\ taxa_anual = 1200
    /\ NotYetRun

SpecDates == InitDates /\ [][Next]_vars

\* ---------------------------------------------------------------- claims

Started == pc \in {"outer", "inner", "done"}

\* C1: for every holding period m >= 1 passed to it, aliquota_ir returns 0.225
\* when m <= 6, 0.200 when 7 <= m <= 12, 0.175 when 13 <= m <= 24 and 0.150
\* when m > 24 (so 6, 7, 12, 13, 24, 25 give 0.225, 0.200, 0.200, 0.175,
\* 0.175, 0.150); the result is one of the four rates and no shorter holding
\* period has a lower rate.
C1_Brackets ==
    meses_investidos >= 1 =>
        /\ (meses_investidos <= 6 => ir_rate = 225)
        /\ (meses_investidos \in 7..12 => ir_rate = 200)
        /\ (meses_investidos \in 13..24 => ir_rate = 175)
        /\ (meses_investidos > 24 => ir_rate = 150)
        /\ ir_rate \in {225, 200, 175, 150}
        /\ \A k \in 1..meses_investidos : aliquota_ir(k) >= ir_rate

C1_Witness ==
    /\ pc = "inner"
    /\ meses_investidos = 25
    /\ ir_rate = 150

\* C2: the run emits exactly `meses` rows, appended in ascending order, whose
\* month indices are 1, 2, ..., meses with none skipped or repeated.
C2_RowsContiguous ==
    /\ \A i \in 1..Len(rows) : rows[i].mes = i
    /\ Started => Len(rows) <= meses
    /\ pc = "done" => Len(rows) = meses

C2_Witness ==
    /\ pc = "done"
    /\ meses = 24
    /\ Len(rows) = 24

\* C3 as stated: in every emitted row with month index t the total invested
\* equals t times the monthly contribution, and it is strictly increasing in t.
C3_Original ==
    /\ \A i \in 1..Len(rows) : rows[i].total_investido * 10 = i * aporte_mensal
    /\ \A i \in 1..(Len(rows) - 1) :
           rows[i].total_investido < rows[i + 1].total_investido

\* C3 amended: the unrounded total invested at month t is t times the monthly
\* contribution; the emitted total is that value rounded to two decimals, so
\* it is within half a cent of it and equal to it when the contribution is a
\* whole number of cents; the emitted total is strictly increasing in t.
C3_Amended ==
    /\ Len(raws) = Len(rows)
    /\ \A i \in 1..Len(rows) :
        /\ raws[i].total_investido = i * aporte_mensal
        /\ rows[i].total_investido * 10 - i * aporte_mensal \in -5..5
        /\ (aporte_mensal % 10 = 0 =>
                rows[i].total_investido * 10 = i * aporte_mensal)
    /\ \A i \in 1..(Len(rows) - 1) :
           rows[i].total_investido < rows[i + 1].total_investido

C3_Witness ==
    /\ aporte_mensal % 10 # 0
    /\ Len(rows) >= 2
    /\ rows[2].total_investido * 10 # 2 * aporte_mensal

\* C4: with an annual rate of 0, in every row the gross balance equals the
\* total invested, the profit is 0 and the tax is 0, so the net balance
\* equals the total invested.
C4_ZeroRate ==
    taxa_anual = 0 =>
        /\ (pc # "derive" => rm = 0)
        /\ \A i \in 1..Len(rows) :
            /\ rows[i].saldo_bruto = rows[i].total_investido
            /\ rows[i].rendimento_bruto = 0
            /\ rows[i].ir = 0
            /\ rows[i].saldo_liquido = rows[i].total_investido
            /\ raws[i].fv_total = raws[i].total_investido
            /\ raws[i].lucro_total = 0
            /\ raws[i].ir_total = 0

C4_Witness ==
    /\ taxa_anual = 0
    /\ pc = "done"
    /\ Len(rows) = meses
    /\ rows[meses].saldo_bruto = rows[meses].total_investido

\* C5 (rejection of invalid parameters) has no formula: the script has no
\* validation path, and the widget bounds of lines 37-41 keep every
\* parameter valid, so no state has an invalid parameter to reject.  What
\* the bounds give is stated here.
ParametersValid ==
    /\ aporte_mensal >= 1 * MILLS
    /\ taxa_anual >= 0
    /\ prazo_anos >= 1
    /\ aporte_inicio \in BOOLEAN
    /\ (pc # "derive" => meses >= 12)

FirstOfMonth(idx) == Date(idx \div 12, (idx % 12) + 1, 1)
LastOfMonth(idx) ==
    Date(idx \div 12, (idx % 12) + 1, DaysInMonth(idx \div 12, (idx % 12) + 1))

\* C6 as stated: with the contribution at the beginning of the month, for
\* every start date the contribution of index k is the first day of the month
\* k months after the start date's own month; with the contribution at the
\* end of the month it is the last day of that month.
C6_Original ==
    Started =>
        /\ Len(aporte_dates) = meses
        /\ \A i \in 1..Len(aporte_dates) :
               aporte_dates[i] =
                   IF aporte_inicio
                   THEN FirstOfMonth(MonthIndex(data_inicio) + i - 1)
                   ELSE LastOfMonth(MonthIndex(data_inicio) + i - 1)

\* C6 amended: with the contribution at the beginning of the month, the
\* contribution of index k is the first day of the month k months after the
\* start date's month when the start date is a first day of a month, and k+1
\* months after it otherwise (the index-0 contribution is the first month
\* start on or after the start date); with the contribution at the end of the
\* month it is the last day of the month k months after the start date's
\* month.  One contribution per calendar month either way.
C6_Amended ==
    Started =>
        /\ Len(aporte_dates) = meses
        /\ \A i \in 1..Len(aporte_dates) :
               aporte_dates[i] =
                   IF aporte_inicio
                   THEN FirstOfMonth(MonthIndex(data_inicio) + i - 1
                                     + (IF data_inicio.d = 1 THEN 0 ELSE 1))
                   ELSE LastOfMonth(MonthIndex(data_inicio) + i - 1)
        /\ \A i \in 1..(Len(aporte_dates) - 1) :
               MonthIndex(aporte_dates[i + 1]) = MonthIndex(aporte_dates[i]) + 1

C6_Witness ==
    /\ Started
    /\ aporte_inicio
    /\ data_inicio.d = 15
    /\ MonthIndex(aporte_dates[1]) = MonthIndex(data_inicio) + 1

\* C7: for every t the withdrawal date of row t is the contribution date of
\* index t-1: the first day of its month with the contribution at the
\* beginning of the month, the last day of its month with the contribution at
\* the end of the month.
C7_SaqueKeepsPolicy ==
    \A i \in 1..Len(rows) :
        /\ rows[i].data_saque = aporte_dates[i]
        /\ (aporte_inicio => rows[i].data_saque.d = 1)
        /\ (~aporte_inicio =>
                rows[i].data_saque.d =
                    DaysInMonth(rows[i].data_saque.y, rows[i].data_saque.m))

\* The totals of a withdrawal at month n, as a fold over the holding periods
\* 1..n that reads only the amount and the monthly rate.
RECURSIVE FoldTotals(_, _, _)
FoldTotals(a, r, n) ==
    IF n = 0
    THEN [total_investido |-> 0, fv_total |-> 0, lucro_total |-> 0,
          ir_total |-> 0]
    ELSE LET p  == FoldTotals(a, r, n - 1)
             fv == (a * Pow(SCALE + r, n)) \div SCALE
             tx == IF n <= 6 THEN 225 ELSE IF n <= 12 THEN 200
                   ELSE IF n <= 24 THEN 175 ELSE 150
         IN  [total_investido |-> p.total_investido + a,
              fv_total        |-> p.fv_total + fv,
              lucro_total     |-> p.lucro_total + (fv - a),
              ir_total        |-> p.ir_total + (fv - a) * tx]

\* C8: no accumulator state crosses withdrawal months: the four totals are 0
\* when the inner loop of each month starts, and the numeric fields of the
\* row of month t are a function of the amount, the monthly rate and t alone,
\* whatever the number of periods.
C8_NoCrossState ==
    /\ (pc = "inner" /\ m = 0) =>
           /\ total_investido = 0
           /\ fv_total = 0
           /\ lucro_total = 0
           /\ ir_total = 0
    /\ (pc = "outer" /\ Len(rows) > 0) =>
           LET n == Len(rows)
               f == FoldTotals(aporte_mensal, rm, n)
           IN  /\ raws[n].total_investido = f.total_investido
               /\ raws[n].fv_total = f.fv_total
               /\ raws[n].lucro_total = f.lucro_total
               /\ raws[n].ir_total = f.ir_total
               /\ raws[n].saldo_liquido = f.fv_total * MILLS - f.ir_total
               /\ rows[n].mes = n
               /\ rows[n].total_investido * 10 - f.total_investido \in -5..5
               /\ rows[n].saldo_bruto * 10 - f.fv_total \in -5..5
               /\ rows[n].rendimento_bruto * 10 - f.lucro_total \in -5..5
               /\ rows[n].ir * 10 * MILLS - f.ir_total \in -5000..5000

C8_Witness ==
    /\ pc = "inner"
    /\ m = 0
    /\ t = 13
    /\ Len(rows) = 12
    /\ raws[12].ir_total > 0
    /\ ir_total = 0

\* C9: the nested loops are a running fold: during month t the holding
\* periods passed to aliquota_ir are t, t-1, ..., each once and none below 1,
\* and are exactly 1..t when the row is emitted; and the unrounded totals of
\* row t+1 are those of row t plus the values of a single contribution held
\* for t+1 months.
C9_RunningFold ==
    /\ pc = "inner" =>
           /\ Len(held) = m
           /\ \A j \in 1..Len(held) : held[j] = t - j + 1 /\ held[j] >= 1
           /\ (m = t => { held[j] : j \in 1..Len(held) } = 1..t)
    /\ \A i \in 1..(Len(raws) - 1) :
           LET h     == i + 1
               fv    == FutureValue(aporte_mensal, rm, h)
               lucro == fv - aporte_mensal
           IN  /\ raws[h].total_investido =
                      raws[i].total_investido + aporte_mensal
               /\ raws[h].fv_total = raws[i].fv_total + fv
               /\ raws[h].lucro_total = raws[i].lucro_total + lucro
               /\ raws[h].ir_total =
                      raws[i].ir_total + lucro * aliquota_ir(h)

C9_Witness ==
    /\ pc = "inner"
    /\ t = 25
    /\ m = t
    /\ Len(raws) = 24
    /\ rm > 0
    /\ held[1] = 25
    /\ held[25] = 1

\* C10: in every row the unrounded totals satisfy profit = gross - invested
\* >= 0, 0.15 * profit <= tax <= 0.225 * profit, net = gross - tax and
\* invested <= net <= gross.
C10_TaxWithinProfit ==
    \A i \in 1..Len(raws) :
        LET r == raws[i]
        IN  /\ r.lucro_total = r.fv_total - r.total_investido
            /\ r.lucro_total >= 0
            /\ 150 * r.lucro_total <= r.ir_total
            /\ r.ir_total <= 225 * r.lucro_total
            /\ r.saldo_liquido = r.fv_total * MILLS - r.ir_total
            /\ r.total_investido * MILLS <= r.saldo_liquido
            /\ r.saldo_liquido <= r.fv_total * MILLS

C10_Witness ==
    /\ Len(raws) >= 25
    /\ raws[25].lucro_total > 0
    /\ 150 * raws[25].lucro_total < raws[25].ir_total
    /\ raws[25].ir_total < 225 * raws[25].lucro_total
    /\ raws[25].total_investido * MILLS < raws[25].saldo_liquido
    /\ raws[25].saldo_liquido < raws[25].fv_total * MILLS

=============================================================================
